---- MODULE Spec2Model ----
(***************************************************************************)
(* Topology derivation and global interpolation-point numbering of         *)
(* fealpy's HexahedronMesh (src/fealpy/mesh/hexahedron_mesh.py), and the   *)
(* partition-of-unity functions of src/fealpy/ml/modules/pou.py.           *)
(*                                                                         *)
(* numpy arrays are modelled as functions on 0..n-1, so that every index   *)
(* of the model is the index of the source.                                *)
(***************************************************************************)
EXTENDS Integers, Sequences, FiniteSets, TLC

(* ---------------------------- array helpers ---------------------------- *)

Arr(s) == [i \in 0..(Len(s) - 1) |-> s[i + 1]]

Size(a) == Cardinality(DOMAIN a)

Range(a) == {a[i] : i \in DOMAIN a}

Push(a, x) == [i \in 0..Size(a) |-> IF i < Size(a) THEN a[i] ELSE x]

Empty == Arr(<< >>)

Take(a, idx) == [k \in DOMAIN idx |-> a[idx[k]]]

(* np.argsort of a vector of pairwise distinct integers *)
Argsort(x) ==
    [r \in DOMAIN x |->
        CHOOSE k \in DOMAIN x : Cardinality({l \in DOMAIN x : x[l] < x[k]}) = r]

(* ------------------------------ bounds --------------------------------- *)

MaxP == 3

MaxRefine == 2

(* ------------------- HexahedronMeshDataStructure ----------------------- *)

(* localEdge with the pair (0, 3) mistyped as the diagonal (0, 2) *)
localEdgeTypo ==
    Arr(<< Arr(<<0, 1>>), Arr(<<1, 2>>), Arr(<<2, 3>>), Arr(<<0, 2>>),
           Arr(<<0, 4>>), Arr(<<1, 5>>), Arr(<<2, 6>>), Arr(<<3, 7>>),
           Arr(<<4, 5>>), Arr(<<5, 6>>), Arr(<<6, 7>>), Arr(<<4, 7>>) >>)

localEdge ==
    Arr(<< Arr(<<0, 1>>), Arr(<<1, 2>>), Arr(<<2, 3>>), Arr(<<0, 3>>),
           Arr(<<0, 4>>), Arr(<<1, 5>>), Arr(<<2, 6>>), Arr(<<3, 7>>),
           Arr(<<4, 5>>), Arr(<<5, 6>>), Arr(<<6, 7>>), Arr(<<4, 7>>) >>)

(* localFace with the right face (1, 2, 6, 5) mistyped as (1, 2, 6, 7) *)
localFaceTypo ==
    Arr(<< Arr(<<0, 3, 2, 1>>), Arr(<<4, 5, 6, 7>>),
           Arr(<<0, 4, 7, 3>>), Arr(<<1, 2, 6, 7>>),
           Arr(<<0, 1, 5, 4>>), Arr(<<2, 3, 7, 6>>) >>)

(* localFace with a vertex repeated in the bottom face *)
localFaceRepeat ==
    Arr(<< Arr(<<0, 3, 2, 2>>), Arr(<<4, 5, 6, 7>>),
           Arr(<<0, 4, 7, 3>>), Arr(<<1, 2, 6, 5>>),
           Arr(<<0, 1, 5, 4>>), Arr(<<2, 3, 7, 6>>) >>)

localFace ==
    Arr(<< Arr(<<0, 3, 2, 1>>), Arr(<<4, 5, 6, 7>>),
           Arr(<<0, 4, 7, 3>>), Arr(<<1, 2, 6, 5>>),
           Arr(<<0, 1, 5, 4>>), Arr(<<2, 3, 7, 6>>) >>)

localFace2edge ==
    Arr(<< Arr(<<3, 2, 1, 0>>),  Arr(<<8, 9, 10, 11>>),
           Arr(<<4, 11, 7, 3>>), Arr(<<1, 6, 9, 5>>),
           Arr(<<0, 5, 8, 4>>),  Arr(<<2, 7, 10, 6>>) >>)

NVC == 8

NEC == 12

NFC == 6

NVF == 4

NEF == 4

(* local patterns of the simplicial meshes exercised by test/mesh_test.py *)
triLocalEdge == Arr(<< Arr(<<1, 2>>), Arr(<<2, 0>>), Arr(<<0, 1>>) >>)

triLocalFace2edge == Arr(<< Arr(<<0>>), Arr(<<1>>), Arr(<<2>>) >>)

tetLocalFace ==
    Arr(<< Arr(<<1, 2, 3>>), Arr(<<0, 3, 2>>), Arr(<<0, 1, 3>>), Arr(<<0, 2, 1>>) >>)

tetLocalEdge ==
    Arr(<< Arr(<<0, 1>>), Arr(<<0, 2>>), Arr(<<0, 3>>),
           Arr(<<1, 2>>), Arr(<<1, 3>>), Arr(<<2, 3>>) >>)

tetLocalFace2edge ==
    Arr(<< Arr(<<5, 4, 3>>), Arr(<<5, 1, 2>>), Arr(<<4, 2, 0>>), Arr(<<3, 0, 1>>) >>)

LocalFaceOf(mt) ==
    IF mt = "hex" THEN localFace ELSE IF mt = "tet" THEN tetLocalFace ELSE triLocalEdge

LocalEdgeOf(mt) ==
    IF mt = "hex" THEN localEdge ELSE IF mt = "tet" THEN tetLocalEdge ELSE triLocalEdge

LocalFace2edgeOf(mt) ==
    IF mt = "hex" THEN localFace2edge
    ELSE IF mt = "tet" THEN tetLocalFace2edge ELSE triLocalFace2edge

NVCOf(mt) == IF mt = "hex" THEN NVC ELSE IF mt = "tet" THEN 4 ELSE 3

(* ------------------------------ inputs --------------------------------- *)

(* reference corner of each local vertex of the hexahedron, as (x, y, z) *)
refCorner ==
    Arr(<< Arr(<<0, 0, 0>>), Arr(<<1, 0, 0>>), Arr(<<1, 1, 0>>), Arr(<<0, 1, 0>>),
           Arr(<<0, 0, 1>>), Arr(<<1, 0, 1>>), Arr(<<1, 1, 1>>), Arr(<<0, 1, 1>>) >>)

VertexAt(xyz) == CHOOSE v \in DOMAIN refCorner : refCorner[v] = xyz

Axes == 0..2

AxisPerms == {f \in [Axes -> Axes] : \A a, b \in Axes : f[a] = f[b] => a = b}

Inversions(f) == Cardinality({ab \in Axes \X Axes : ab[1] < ab[2] /\ f[ab[1]] > f[ab[2]]})

Flips == [Axes -> {0, 1}]

(* the 24 orientation preserving relabelings of the local vertices of a cell *)
Rot ==
    {[v \in 0..(NVC - 1) |->
        VertexAt([a \in Axes |-> (refCorner[v][f[a]] + s[a]) % 2])] :
        <<f, s>> \in {fs \in AxisPerms \X Flips :
            (Inversions(fs[1]) + fs[2][0] + fs[2][1] + fs[2][2]) % 2 = 0}}

Mesh(mt, nn, cells) == [meshtype |-> mt, NN |-> nn, cell |-> cells]

(* connectivity of from_one_hexahedron *)
OneHexCell == Arr(<<0, 1, 2, 3, 4, 5, 6, 7>>)

(* from_one_hexahedron: the node rows and the cell array handed to cls(node, cell) *)
from_one_hexahedron ==
    [node |-> Arr(<< Arr(<<0, 0, 0>>), Arr(<<1, 0, 0>>), Arr(<<1, 1, 0>>), Arr(<<0, 0, 0>>),
                     Arr(<<0, 0, 1>>), Arr(<<1, 0, 1>>), Arr(<<1, 1, 1>>), Arr(<<0, 0, 1>>) >>),
     cell |-> Arr(<<OneHexCell>>)]

(* the cell across local face 3 of OneHexCell, in reference local order *)
NeighbourCell == Arr(<<1, 8, 9, 2, 5, 10, 11, 6>>)

RotCells == {Take(NeighbourCell, g) : g \in Rot}

(* two hexahedra glued along one face, one of them in each of the 24
   orientation preserving local vertex orders, registered in either order *)
HexPairs ==
    {Mesh("hex", 12, Arr(<<OneHexCell, c>>)) : c \in RotCells}
        \cup {Mesh("hex", 12, Arr(<<c, OneHexCell>>)) : c \in RotCells}

(* four hexahedra around one edge (a 2 x 2 x 1 box), some with rotated local order *)
RingMeshes ==
    LET c0 == Arr(<<0, 6, 8, 2, 1, 7, 9, 3>>)
        c1 == Arr(<<2, 8, 10, 4, 3, 9, 11, 5>>)
        c2 == Arr(<<6, 12, 14, 8, 7, 13, 15, 9>>)
        c3 == Arr(<<8, 14, 16, 10, 9, 15, 17, 11>>)
    IN  {Mesh("hex", 18, Arr(<<c0, Take(c1, g), c2, Take(c3, h)>>)) :
            <<g, h>> \in {gh \in Rot \X Rot : gh[1][0] = 0 /\ gh[2][6] = 6}}

(* a cell that names one node twice *)
DegenerateMeshes ==
    {Mesh("hex", 12, Arr(<<OneHexCell, Arr(<<1, 8, 9, 2, 5, 10, 8, 6>>)>>)),
     Mesh("hex", 8, Arr(<<Arr(<<0, 1, 2, 3, 4, 5, 6, 0>>)>>))}

(* three cells that claim the face {1, 2, 5, 6} *)
NonManifoldMeshes ==
    {Mesh("hex", 16, Arr(<<OneHexCell, NeighbourCell,
                            Arr(<<1, 12, 13, 2, 5, 14, 15, 6>>)>>))}

(* the meshes of test/mesh_test.py *)
TwoTriangles == Mesh("tri", 4, Arr(<<Arr(<<1, 2, 0>>), Arr(<<3, 0, 2>>)>>))

OneTetrahedron == Mesh("tet", 4, Arr(<<Arr(<<0, 1, 2, 3>>)>>))

MeshInputs ==
    {Mesh("hex", Size(from_one_hexahedron.node), from_one_hexahedron.cell),
     TwoTriangles, OneTetrahedron}
        \cup HexPairs \cup RingMeshes \cup DegenerateMeshes \cup NonManifoldMeshes

(* ------------------------------- state --------------------------------- *)

VARIABLES
    node,           \* number of rows of the node array handed to the constructor
    cell,           \* the cell array handed to the constructor
    meshtype,       \* 'hex', or the simplicial types of the tests
    pc,             \* "new", "construct", "built" or "failed"
    err,            \* the error raised by the constructor, "" when none
    nextCell,       \* the next cell of the entity-construction pass
    face,           \* canonical face table: node tuples
    edge,           \* canonical edge table: node pairs
    face2cell,      \* per face: first and second adjacent cell, -1 when absent
    cell2face,      \* per registered cell: the face index of each local face
    cell2facePerm,  \* per registered cell and local face: local order -> canonical
    cell2edge,      \* per registered cell: the edge index of each local edge
    face2edge,      \* per face: the edge index of each of its sides
    p,              \* order of the last numbering query, 0 before any
    edge2ipoint,    \* result of the last edge_to_ipoint
    face2ipoint,    \* result of the last face_to_ipoint
    cell2ipoint,    \* result of the last cell_to_ipoint
    last,           \* name of the numbering query whose tables the caller holds
    ret,            \* outcome of the last call that returned no index table
    regOrder,       \* the cells in the order in which the pass has registered them
    nodeRef,        \* the object bound to self.node
    cellRef,        \* the object bound to self.ds.cell
    clsInstance,    \* per class of pou.py that has its own _instance: its value
    heap,           \* the objects made by object.__new__: the class of each
    given           \* per class C the objects that calls C() have returned

topology == <<face, edge, face2cell, cell2face, cell2facePerm, cell2edge, face2edge>>

input == <<node, cell, meshtype>>

numbering == <<p, edge2ipoint, face2ipoint, cell2ipoint, last, ret>>

refs == <<nodeRef, cellRef>>

pou == <<clsInstance, heap, given>>

vars == <<input, pc, err, nextCell, topology, numbering, regOrder, refs, pou>>

Sentinel == -1

(* --------------------- entity-construction pass ------------------------ *)

(* index of the table entry with this sorted-node-tuple key, Sentinel when none *)
Find(tab, key) ==
    IF \E j \in DOMAIN tab : Range(tab[j]) = key
    THEN CHOOSE j \in DOMAIN tab : Range(tab[j]) = key
    ELSE Sentinel

(* the permutation q with canon[k] = loc[q[k]] *)
PermOnto(loc, canon) ==
    [k \in DOMAIN canon |-> CHOOSE l \in DOMAIN loc : loc[l] = canon[k]]

ApplyPerm(q, tup) == [k \in DOMAIN q |-> tup[q[k]]]

InversePerm(q) == [l \in DOMAIN q |-> CHOOSE k \in DOMAIN q : q[k] = l]

(* one local edge of the cell cl: insert on first sight, else look up *)
RegisterEdge(st, cl, i) ==
    LET le == Take(cl, LocalEdgeOf(meshtype)[i])
        j  == Find(st.edge, Range(le))
    IN  IF j = Sentinel
        THEN [st EXCEPT !.edge = Push(st.edge, le), !.row = Push(st.row, Size(st.edge))]
        ELSE [st EXCEPT !.row = Push(st.row, j)]

RECURSIVE RegisterEdges(_, _, _)
RegisterEdges(st, cl, i) ==
    IF i = Size(LocalEdgeOf(meshtype)) THEN st
    ELSE RegisterEdges(RegisterEdge(st, cl, i), cl, i + 1)

(* RegisterFace that does not record the second cell of a face *)
RegisterFaceForgetsSecond(st, c, cl, c2e, i) ==
    LET lf == Take(cl, LocalFaceOf(meshtype)[i])
        j  == Find(st.face, Range(lf))
    IN  IF j = Sentinel
        THEN [st EXCEPT
                !.face = Push(st.face, lf),
                !.face2cell = Push(st.face2cell, Arr(<<c, Sentinel>>)),
                !.face2edge = Push(st.face2edge, Take(c2e, LocalFace2edgeOf(meshtype)[i])),
                !.row = Push(st.row, Size(st.face)),
                !.perm = Push(st.perm, PermOnto(lf, lf))]
        ELSE [st EXCEPT
                !.row = Push(st.row, j),
                !.perm = Push(st.perm, PermOnto(lf, st.face[j]))]

(* RegisterFace that turns the canonical order to the order of the lower cell
   when that cell comes second, and leaves the first cell's record as it is *)
RegisterFaceLowestWins(st, c, cl, c2e, i) ==
    LET lf == Take(cl, LocalFaceOf(meshtype)[i])
        j  == Find(st.face, Range(lf))
    IN  IF st.err # "" THEN st
        ELSE IF j = Sentinel
        THEN [st EXCEPT
                !.face = Push(st.face, lf),
                !.face2cell = Push(st.face2cell, Arr(<<c, Sentinel>>)),
                !.face2edge = Push(st.face2edge, Take(c2e, LocalFace2edgeOf(meshtype)[i])),
                !.row = Push(st.row, Size(st.face)),
                !.perm = Push(st.perm, PermOnto(lf, lf))]
        ELSE IF st.face2cell[j][1] = Sentinel
        THEN IF c < st.face2cell[j][0]
             THEN [st EXCEPT
                    !.face[j] = lf,
                    !.face2cell[j] = Arr(<<c, st.face2cell[j][0]>>),
                    !.row = Push(st.row, j),
                    !.perm = Push(st.perm, PermOnto(lf, lf))]
             ELSE [st EXCEPT
                    !.face2cell[j][1] = c,
                    !.row = Push(st.row, j),
                    !.perm = Push(st.perm, PermOnto(lf, st.face[j]))]
        ELSE [st EXCEPT !.err = "TopologyError"]

(* RegisterFace that lets a third claimant of a face pass without a word *)
RegisterFaceDropsThird(st, c, cl, c2e, i) ==
    LET lf == Take(cl, LocalFaceOf(meshtype)[i])
        j  == Find(st.face, Range(lf))
    IN  IF j = Sentinel
        THEN [st EXCEPT
                !.face = Push(st.face, lf),
                !.face2cell = Push(st.face2cell, Arr(<<c, Sentinel>>)),
                !.face2edge = Push(st.face2edge, Take(c2e, LocalFace2edgeOf(meshtype)[i])),
                !.row = Push(st.row, Size(st.face)),
                !.perm = Push(st.perm, PermOnto(lf, lf))]
        ELSE IF st.face2cell[j][1] = Sentinel
        THEN [st EXCEPT
                !.face2cell[j][1] = c,
                !.row = Push(st.row, j),
                !.perm = Push(st.perm, PermOnto(lf, st.face[j]))]
        ELSE [st EXCEPT
                !.row = Push(st.row, j),
                !.perm = Push(st.perm, PermOnto(lf, st.face[j]))]

(* one local face of cell c: the first registrant fixes the canonical order,
   the second is recorded with its permutation, a third is a TopologyError *)
RegisterFace(st, c, cl, c2e, i) ==
    LET lf == Take(cl, LocalFaceOf(meshtype)[i])
        j  == Find(st.face, Range(lf))
    IN  IF st.err # "" THEN st
        ELSE IF j = Sentinel
        THEN [st EXCEPT
                !.face = Push(st.face, lf),
                !.face2cell = Push(st.face2cell, Arr(<<c, Sentinel>>)),
                !.face2edge = Push(st.face2edge, Take(c2e, LocalFace2edgeOf(meshtype)[i])),
                !.row = Push(st.row, Size(st.face)),
                !.perm = Push(st.perm, PermOnto(lf, lf))]
        ELSE IF st.face2cell[j][1] = Sentinel
        THEN [st EXCEPT
                !.face2cell[j][1] = c,
                !.row = Push(st.row, j),
                !.perm = Push(st.perm, PermOnto(lf, st.face[j]))]
        ELSE [st EXCEPT !.err = "TopologyError"]

RECURSIVE RegisterFaces(_, _, _, _, _)
RegisterFaces(st, c, cl, c2e, i) ==
    IF i = Size(LocalFaceOf(meshtype)) THEN st
    ELSE RegisterFaces(RegisterFace(st, c, cl, c2e, i), c, cl, c2e, i + 1)

IsDegenerate(cl) == Cardinality(Range(cl)) < Size(cl)

NC == Size(cell)

NN == node

(* no call outcome is held *)
NoRet == [fn |-> "", arg |-> << >>, out |-> "", trace |-> << >>, val |-> << >>]

(* the array objects the caller hands to the constructor, and no object *)
NodeArg == "node array of the caller"

CellArg == "cell array of the caller"

NoObject == ""

(* _instance = None *)
None == 0

(* pou.py is imported: _PoU_Fn._instance is None, and func = _PoU_Sin_Fn() in
   the body of PoUSin has made object 1 and bound _PoU_Sin_Fn._instance to it *)
PoUImported ==
    /\ heap = <<"_PoU_Sin_Fn">>
    /\ clsInstance = [C \in {"_PoU_Fn", "_PoU_Sin_Fn"} |->
                        IF C = "_PoU_Sin_Fn" THEN 1 ELSE None]
    /\ given = [C \in {"_PoU_Fn", "_PoU_Sin_Fn", "UserFn", "UserSinFn"} |->
                        IF C = "_PoU_Sin_Fn" THEN {1} ELSE {}]

NF == Size(face)

NE == Size(edge)

Init ==
    /\ \E m \in MeshInputs :
        /\ node = m.NN
        /\ cell = m.cell
        /\ meshtype = m.meshtype
    /\ pc = "new"
    /\ err = ""
    /\ nextCell = 0
    /\ face = Empty /\ edge = Empty /\ face2cell = Empty /\ cell2face = Empty
    /\ cell2facePerm = Empty /\ cell2edge = Empty /\ face2edge = Empty
    /\ p = 0
    /\ edge2ipoint = Empty /\ face2ipoint = Empty /\ cell2ipoint = Empty
    /\ last = ""
    /\ ret = NoRet
    /\ regOrder = << >>
    /\ nodeRef = NoObject /\ cellRef = NoObject
    /\ PoUImported

(* --------------------------- numbering --------------------------------- *)

(* np.where over a flat index range: the positions of S in ascending order *)
RECURSIVE Ascending(_)
Ascending(S) ==
    IF S = {} THEN << >>
    ELSE LET x == CHOOSE y \in S : \A z \in S : y <= z
         IN  <<x>> \o Ascending(S \ {x})

Where(S) == Arr(Ascending(S))

(* position of value x in the array a *)
IndexIn(a, x) == CHOOSE k \in DOMAIN a : a[k] = x

Zeros(rows, cols) == [r \in 0..(rows - 1) |-> [n \in 0..(cols - 1) |-> 0]]

(* number_of_global_ipoints with the cell term squared instead of cubed *)
number_of_global_ipoints_squared(q) ==
    NN + NE * (q - 1) + NF * (q - 1) * (q - 1) + NC * (q - 1) * (q - 1)

number_of_global_ipoints(q) ==
    NN + NE * (q - 1) + NF * (q - 1) * (q - 1) + NC * (q - 1) * (q - 1) * (q - 1)

(* the edge's own point table: first node, its q-1 interior points, second node *)
edge_to_ipoint(q) ==
    [e \in DOMAIN edge |->
        [k \in 0..q |->
            IF k = 0 THEN edge[e][0]
            ELSE IF k = q THEN edge[e][1]
            ELSE NN + e * (q - 1) + (k - 1)]]

(* multiIndex of face_to_ipoint: row n is (n div (q+1), n mod (q+1)) *)
faceMultiIndex(q, n) == Arr(<<n \div (q + 1), n % (q + 1)>>)

(* dofidx of face_to_ipoint: the local numbers of the points of side i *)
faceDofidx(q, i) ==
    LET N == 0..((q + 1) * (q + 1) - 1)
    IN  IF i = 0 THEN Where({n \in N : faceMultiIndex(q, n)[1] = 0})
        ELSE IF i = 1 THEN Where({n \in N : faceMultiIndex(q, n)[0] = q})
        ELSE IF i = 2 THEN Where({n \in N : faceMultiIndex(q, n)[1] = q})
        ELSE Where({n \in N : faceMultiIndex(q, n)[0] = 0})

(* localEdge of face_to_ipoint: start and end vertex of each side *)
faceLocalEdge == Arr(<< Arr(<<0, 1>>), Arr(<<1, 2>>), Arr(<<3, 2>>), Arr(<<0, 3>>) >>)

(* the test of line 287 made against the end vertex of the side *)
FaceSideReversedAtEnd(f, i) == face[f][faceLocalEdge[i][1]] # edge[face2edge[f][i]][0]

(* idx of face_to_ipoint: the side starts at the other end of the edge *)
FaceSideReversed(f, i) == face[f][faceLocalEdge[i][0]] # edge[face2edge[f][i]][0]

(* one round of the loop over the four sides: both assignments of the round *)
FaceSideStep(tab, e2ip, q, i) ==
    LET dof == faceDofidx(q, i)
        at  == [n \in Range(dof) |-> IndexIn(dof, n)]
    IN  [f \in DOMAIN tab |->
            LET row == e2ip[face2edge[f][i]]
                rev == FaceSideReversed(f, i)
            IN  [n \in DOMAIN tab[f] |->
                    IF n \in DOMAIN at
                    THEN IF rev THEN row[q - at[n]] ELSE row[at[n]]
                    ELSE tab[f][n]]]

RECURSIVE FaceSideLoop(_, _, _, _)
FaceSideLoop(tab, e2ip, q, i) ==
    IF i = NEF THEN tab ELSE FaceSideLoop(FaceSideStep(tab, e2ip, q, i), e2ip, q, i + 1)

(* indof of face_to_ipoint *)
faceIndof(q) ==
    Where({n \in 0..((q + 1) * (q + 1) - 1) :
            \A d \in 0..1 : faceMultiIndex(q, n)[d] > 0 /\ faceMultiIndex(q, n)[d] < q})

FaceInterior(tab, q) ==
    LET ind  == faceIndof(q)
        at   == [n \in Range(ind) |-> IndexIn(ind, n)]
        base == NN + NE * (q - 1)
        blk  == (q - 1) * (q - 1)
    IN  [f \in DOMAIN tab |->
            [n \in DOMAIN tab[f] |->
                IF n \in DOMAIN at THEN base + f * blk + at[n] ELSE tab[f][n]]]

face_to_ipoint(q) ==
    FaceInterior(FaceSideLoop(Zeros(NF, (q + 1) * (q + 1)), edge_to_ipoint(q), q, 0), q)

(* multiIndex of cell_to_ipoint: row n is (i, j, k) with n = (i(q+1) + j)(q+1) + k *)
cellMultiIndex(q, n) ==
    Arr(<<n \div ((q + 1) * (q + 1)), (n \div (q + 1)) % (q + 1), n % (q + 1)>>)

(* dofidx of cell_to_ipoint: the local numbers of the points of local face i *)
cellDofidx(q, i) ==
    LET N == 0..((q + 1) * (q + 1) * (q + 1) - 1)
    IN  IF i = 0 THEN Where({n \in N : cellMultiIndex(q, n)[2] = 0})
        ELSE IF i = 1 THEN Where({n \in N : cellMultiIndex(q, n)[2] = q})
        ELSE IF i = 2 THEN Where({n \in N : cellMultiIndex(q, n)[0] = 0})
        ELSE IF i = 3 THEN Where({n \in N : cellMultiIndex(q, n)[0] = q})
        ELSE IF i = 4 THEN Where({n \in N : cellMultiIndex(q, n)[1] = 0})
        ELSE Where({n \in N : cellMultiIndex(q, n)[1] = q})

(* the column shift [3, 0, 1, 2] applied to lf2e and to face2edge *)
shift == Arr(<<3, 0, 1, 2>>)

(* lf2e of cell_to_ipoint, after the column shift *)
lf2e ==
    LET t == Arr(<< Arr(<<0, 1, 2, 3>>), Arr(<<8, 9, 10, 11>>),
                    Arr(<<3, 7, 11, 4>>), Arr(<<1, 6, 9, 5>>),
                    Arr(<<0, 5, 8, 4>>), Arr(<<2, 6, 10, 7>>) >>)
    IN  [i \in DOMAIN t |-> Take(t[i], shift)]

(* multiIndex2d of cell_to_ipoint, row n: (j, k, q - j, q - k) *)
multiIndex2d(q, n) ==
    LET m == cellMultiIndex(q, n)
    IN  Arr(<<m[1], m[2], q - m[1], q - m[2]>>)

(* idx0 of cell_to_ipoint after line 345, for cell c and local face i *)
cellIdx0(c, i) ==
    LET gfe  == Take(face2edge[cell2face[c][i]], shift)
        lfe  == Take(cell2edge[c], lf2e[i])
        idx0 == Argsort(gfe)
        idx1 == Argsort(Argsort(lfe))
    IN  Take(idx0, idx1)

(* one round of the loop over the six local faces *)
CellFaceStep(tab, f2ip, q, i) ==
    LET dof == cellDofidx(q, i)
        at  == [n \in Range(dof) |-> IndexIn(dof, n)]
        m2d == [k \in DOMAIN dof |-> multiIndex2d(q, k)]
    IN  [c \in DOMAIN tab |->
            LET i0  == cellIdx0(c, i)
                row == f2ip[cell2face[c][i]]
                idx == [k \in DOMAIN dof |-> m2d[k][i0[0]] * (q + 1) + m2d[k][i0[1]]]
            IN  [n \in DOMAIN tab[c] |->
                    IF n \in DOMAIN at THEN row[idx[at[n]]] ELSE tab[c][n]]]

RECURSIVE CellFaceLoop(_, _, _, _)
CellFaceLoop(tab, f2ip, q, i) ==
    IF i = NFC THEN tab ELSE CellFaceLoop(CellFaceStep(tab, f2ip, q, i), f2ip, q, i + 1)

(* indof of cell_to_ipoint *)
cellIndof(q) ==
    Where({n \in 0..((q + 1) * (q + 1) * (q + 1) - 1) :
            \A d \in 0..2 : cellMultiIndex(q, n)[d] > 0 /\ cellMultiIndex(q, n)[d] < q})

(* CellInterior with the face tier left out of the base *)
CellInteriorNoFaceTier(tab, q) ==
    LET ind  == cellIndof(q)
        at   == [n \in Range(ind) |-> IndexIn(ind, n)]
        base == NN + NE * (q - 1)
        blk  == (q - 1) * (q - 1) * (q - 1)
    IN  [c \in DOMAIN tab |->
            [n \in DOMAIN tab[c] |->
                IF n \in DOMAIN at THEN base + c * blk + at[n] ELSE tab[c][n]]]

CellInterior(tab, q) ==
    LET ind  == cellIndof(q)
        at   == [n \in Range(ind) |-> IndexIn(ind, n)]
        base == NN + NE * (q - 1) + NF * (q - 1) * (q - 1)
        blk  == (q - 1) * (q - 1) * (q - 1)
    IN  [c \in DOMAIN tab |->
            [n \in DOMAIN tab[c] |->
                IF n \in DOMAIN at THEN base + c * blk + at[n] ELSE tab[c][n]]]

cell_to_ipoint(q, f2ip) ==
    CellInterior(CellFaceLoop(Zeros(NC, (q + 1) * (q + 1) * (q + 1)), f2ip, q, 0), q)

(* --------------------------- cell_to_ipoint0 --------------------------- *)

(* dofidx of cell_to_ipoint0 *)
cellDofidx0(q, i) ==
    LET N == 0..((q + 1) * (q + 1) * (q + 1) - 1)
    IN  IF i = 0 THEN Where({n \in N : cellMultiIndex(q, n)[2] = 0})
        ELSE IF i = 1 THEN Where({n \in N : cellMultiIndex(q, n)[2] = q})
        ELSE IF i = 2 THEN Where({n \in N : cellMultiIndex(q, n)[1] = 0})
        ELSE IF i = 3 THEN Where({n \in N : cellMultiIndex(q, n)[1] = q})
        ELSE IF i = 4 THEN Where({n \in N : cellMultiIndex(q, n)[0] = 0})
        ELSE Where({n \in N : cellMultiIndex(q, n)[0] = q})

(* localFace of cell_to_ipoint0 *)
localFace0 ==
    Arr(<< Arr(<<0, 1, 2, 3>>), Arr(<<4, 5, 6, 7>>),
           Arr(<<0, 3, 7, 4>>), Arr(<<1, 2, 6, 5>>),
           Arr(<<0, 1, 5, 4>>), Arr(<<3, 2, 6, 7>>) >>)

(* multiIndex0[k, j, :] of cell_to_ipoint0 *)
multiIndex0(q, k, j) ==
    LET a == k \div (q + 1)
        b == k % (q + 1)
    IN  IF j = 0 THEN Arr(<<q - a, q - b>>)
        ELSE IF j = 1 THEN Arr(<<a, q - b>>)
        ELSE IF j = 2 THEN Arr(<<a, b>>)
        ELSE Arr(<<q - a, b>>)

(* idx0 of cell_to_ipoint0 after line 403, for cell c and local face i *)
cellIdx00(c, i) ==
    LET gf == face[cell2face[c][i]]
        lf == Take(cell[c], localFace0[i])
    IN  Take(Argsort(gf), Argsort(Argsort(lf)))

(* one round of the loop over the six local faces of cell_to_ipoint0 *)
CellFaceStep0(tab, f2ip, q, i) ==
    LET dof == cellDofidx0(q, i)
        at  == [n \in Range(dof) |-> IndexIn(dof, n)]
    IN  [c \in DOMAIN tab |->
            LET j   == cellIdx00(c, i)[2]
                row == f2ip[cell2face[c][i]]
                idx == [k \in DOMAIN dof |->
                            multiIndex0(q, k, j)[0] * (q + 1) + multiIndex0(q, k, j)[1]]
            IN  [n \in DOMAIN tab[c] |->
                    IF n \in DOMAIN at THEN row[idx[at[n]]] ELSE tab[c][n]]]

RECURSIVE CellFaceLoop0(_, _, _, _)
CellFaceLoop0(tab, f2ip, q, i) ==
    IF i = NFC THEN tab ELSE CellFaceLoop0(CellFaceStep0(tab, f2ip, q, i), f2ip, q, i + 1)

cell_to_ipoint0(q, f2ip) ==
    CellInterior(CellFaceLoop0(Zeros(NC, (q + 1) * (q + 1) * (q + 1)), f2ip, q, 0), q)

(* ------------------------- interpolation_points ------------------------ *)

(* interpolation_points: the point of cell c at local number n of order q is
   the trilinear combination of the cell's nodes; it is kept exactly, as the
   set of (node, weight) pairs with a positive weight (weights in units of
   1/q^3) *)
cellPoint(q, c, n) ==
    LET m == cellMultiIndex(q, n)
        w(v) == LET x == refCorner[v]
                IN  (IF x[0] = 1 THEN m[0] ELSE q - m[0])
                  * (IF x[1] = 1 THEN m[1] ELSE q - m[1])
                  * (IF x[2] = 1 THEN m[2] ELSE q - m[2])
    IN  {<<cell[c][v], w(v)>> : v \in {u \in DOMAIN cell[c] : w(u) > 0}}

(* ipoint[c2ip] = points: row g holds the point of the last (cell, local
   number) that carries g, and stays the zero row ({}) when none does *)
interpolation_points(q, c2ip) ==
    LET gp  == number_of_global_ipoints(q)
        rng == [c \in DOMAIN c2ip |-> Range(c2ip[c])]
    IN  [g \in 0..(gp - 1) |->
            LET cs == {c \in DOMAIN c2ip : g \in rng[c]}
            IN  IF cs = {} THEN {}
                ELSE LET c  == CHOOSE x \in cs : \A y \in cs : y <= x
                         ns == {x \in DOMAIN c2ip[c] : c2ip[c][x] = g}
                         n  == CHOOSE x \in ns : \A y \in ns : y <= x
                     IN  cellPoint(q, c, n)]

(* ------------------------------ geometry ------------------------------- *)

(* the column list of lines 91 and 178 *)
cellVertexOrder == Arr(<<0, 4, 5, 7, 1, 5, 2, 6>>)

(* the column list of line 102 *)
faceVertexOrder == Arr(<<0, 3, 1, 2>>)

(* jacobi_matrix applies the list of line 178 whatever the dimension TD *)
jacobiVertexOrder(TD) == cellVertexOrder

(* tab[index]: every row for the default slice, the row k for the index
   array [k], and an IndexError when the table has no row k *)
Select(tab, sl, k) ==
    IF sl THEN [ok |-> TRUE, tab |-> tab]
    ELSE IF k \in DOMAIN tab THEN [ok |-> TRUE, tab |-> Arr(<<tab[k]>>)]
    ELSE [ok |-> FALSE, tab |-> Empty]

BcKinds == {"tuple3", "tuple2", "array"}

(* the argument bc: a tuple of that many 1-D rules, or an (NQ, 2) array *)
BcInput(kind) ==
    IF kind = "tuple3" THEN [tuple |-> TRUE, len |-> 3, cols |-> 0]
    ELSE IF kind = "tuple2" THEN [tuple |-> TRUE, len |-> 2, cols |-> 0]
    ELSE [tuple |-> FALSE, len |-> 0, cols |-> 2]

(* lines 81-91: the first if statement of bc_to_point *)
CellBranch(st, sl, k) ==
    IF st.out # "" THEN st
    ELSE IF ~(st.bc.tuple /\ st.bc.len = 3) THEN st
    ELSE LET sel == Select(cell, sl, k)
         IN  IF ~sel.ok
             THEN [st EXCEPT
                    !.out = "IndexError",
                    !.trace = Append(@, [branch |-> "cell", uses |-> 1, gather |-> Empty])]
             ELSE [st EXCEPT
                    !.bc = [tuple |-> FALSE, len |-> 0, cols |-> NVC],
                    !.trace = Append(@, [branch |-> "cell", uses |-> 1,
                        gather |-> [c \in DOMAIN sel.tab |->
                                        Take(sel.tab[c], cellVertexOrder)]])]

(* lines 93-105: the second if statement with its else *)
FaceOrEdgeBranch(st, sl, k) ==
    IF st.out # "" THEN st
    ELSE IF st.bc.tuple /\ st.bc.len = 2
    THEN LET sel == Select(face, sl, k)
         IN  IF ~sel.ok
             THEN [st EXCEPT
                    !.out = "IndexError",
                    !.trace = Append(@, [branch |-> "face", uses |-> 1, gather |-> Empty])]
             ELSE [st EXCEPT
                    !.bc = [tuple |-> FALSE, len |-> 0, cols |-> NVF],
                    !.trace = Append(@, [branch |-> "face", uses |-> 1,
                        gather |-> [f \in DOMAIN sel.tab |->
                                        Take(sel.tab[f], faceVertexOrder)]])]
    ELSE LET s1 == Select(edge, sl, k)
             s2 == IF s1.ok THEN Select(s1.tab, sl, k) ELSE s1
             t  == Append(st.trace, [branch |-> "edge", uses |-> 2, gather |-> s2.tab])
         IN  IF ~s2.ok THEN [st EXCEPT !.out = "IndexError", !.trace = t]
             ELSE IF \E e \in DOMAIN s2.tab : Size(s2.tab[e]) # st.bc.cols
             THEN [st EXCEPT !.out = "ValueError", !.trace = t]
             ELSE [st EXCEPT !.trace = t]

bc_to_point(kind, sl, k) ==
    LET st0 == [out |-> "", trace |-> << >>, bc |-> BcInput(kind)]
        st  == FaceOrEdgeBranch(CellBranch(st0, sl, k), sl, k)
    IN  [fn |-> "bc_to_point", arg |-> <<kind, sl, k>>,
         out |-> IF st.out = "" THEN "returned" ELSE st.out,
         trace |-> st.trace,
         val |-> IF st.out = "" THEN st.trace[Len(st.trace)].branch ELSE ""]

(* np.einsum takes an operand that has one axis per letter of its subscript *)
EinsumAccepts(shape, subscript) == Len(shape) = Len(subscript)

(* the names bound in grad_shape_function: its parameters and its locals *)
gradNames ==
    {"self", "bc", "p", "variables", "TD", "Dlambda", "phi", "R", "gphi",
     "n", "ldof", "shape", "J", "G"}

(* the names bound at module level *)
moduleNames ==
    {"np", "coo_matrix", "csc_matrix", "csr_matrix", "spdiags", "eye", "tril", "triu",
     "find", "hstack", "Mesh3d", "Plotable", "Mesh3dDataStructure", "HomogeneousMeshDS",
     "HexahedronMeshDataStructure", "HexahedronMesh"}

(* grad_shape_function for a tuple of TD rules; singular: some selected
   entity has a singular Jacobian or first fundamental form *)
grad_shape_function(TD, variables, singular) ==
    LET shape == <<"n", "ldof", "TD">>
        out   == IF TD \in {2, 3} /\ ~EinsumAccepts(shape, <<"i", "m">>) THEN "ValueError"
                 ELSE IF TD \in {2, 3} /\ variables = "x"
                 THEN IF "index" \notin gradNames \cup moduleNames THEN "NameError"
                      ELSE IF singular THEN "LinAlgError" ELSE "returned"
                 ELSE "returned"
    IN  [fn |-> "grad_shape_function", arg |-> <<TD, variables, singular>>,
         out |-> out, trace |-> << >>,
         val |-> IF out = "returned" THEN "zeros" ELSE ""]

(* jacobi_matrix for a tuple of TD rules, on every entity of dimension TD *)
jacobi_matrix(TD) ==
    LET g      == grad_shape_function(TD, "u", FALSE)
        entity == IF TD = 3 THEN cell ELSE face
        order  == jacobiVertexOrder(TD)
        out    == IF g.out # "returned" THEN g.out
                  ELSE IF \E c \in DOMAIN entity : ~(Range(order) \subseteq DOMAIN entity[c])
                  THEN "IndexError" ELSE "returned"
    IN  [fn |-> "jacobi_matrix", arg |-> <<TD>>, out |-> out, trace |-> << >>,
         val |-> IF out = "returned"
                 THEN [c \in DOMAIN entity |-> Take(entity[c], order)] ELSE << >>]

(* the statements of the class body that bind cell_volume and face_area,
   in the order in which the class body executes them *)
classBody ==
    << [name |-> "cell_volume", impl |-> "quadrature"],
       [name |-> "face_area", impl |-> "quadrature"],
       [name |-> "cell_volume", impl |-> "stub"],
       [name |-> "face_area", impl |-> "stub"] >>

(* attribute lookup finds the binding the class body made last *)
Resolve(name) ==
    LET k == CHOOSE i \in DOMAIN classBody :
                /\ classBody[i].name = name
                /\ \A j \in DOMAIN classBody : classBody[j].name = name => j <= i
    IN  classBody[k].impl

(* a call of cell_volume() or face_area(): the stub returns None, the
   quadrature version one measure for each entity *)
Measure(name) ==
    LET impl == Resolve(name)
        J    == jacobi_matrix(IF name = "cell_volume" THEN 3 ELSE 2)
    IN  IF impl = "stub"
        THEN [fn |-> name, arg |-> << >>, out |-> "returned", trace |-> <<impl>>,
              val |-> "None"]
        ELSE [fn |-> name, arg |-> << >>, out |-> J.out, trace |-> <<impl>>,
              val |-> IF J.out = "returned"
                      THEN [c \in DOMAIN J.val |-> "measure"] ELSE "None"]

(* ------------------------------ actions -------------------------------- *)

(* ------------------------------ from_box ------------------------------- *)

(* divisions per axis handed to from_box, at most *)
MaxN == 2

(* cells that a threshold flags, at most *)
MaxDel == 2

(* cells of the grid handed to from_box, at most *)
MaxCells == 8

(* node[:, 0] = X.flat, node[:, 1] = Y.flat, node[:, 2] = Z.flat of np.mgrid:
   row n holds, per axis, the position of its abscissa among the equally
   spaced abscissae of that axis *)
boxNode(nx, ny, nz) ==
    [n \in 0..((nx + 1) * (ny + 1) * (nz + 1) - 1) |->
        Arr(<<n \div ((ny + 1) * (nz + 1)), (n \div (nz + 1)) % (ny + 1), n % (nz + 1)>>)]

(* idx = np.arange(NN).reshape(nx+1, ny+1, nz+1), where grid node (i, j, k)
   has the number i(ny+1)(nz+1) + j(nz+1) + k; c = idx[:-1, :-1, :-1] and
   c.flatten(): per grid box the number of its lowest corner *)
boxCorner(nx, ny, nz) ==
    [n \in 0..(nx * ny * nz - 1) |->
        LET i == n \div (ny * nz)
            j == (n \div nz) % ny
            k == n % nz
        IN  i * (ny + 1) * (nz + 1) + j * (nz + 1) + k]

(* the column assignments cell[:, 0] = c.flatten() ... cell[:, 7] = cell[:, 4] + nz + 1 *)
boxCell(nx, ny, nz) ==
    LET c   == boxCorner(nx, ny, nz)
        nyz == (ny + 1) * (nz + 1)
    IN  [n \in DOMAIN c |->
            LET c0 == c[n]
                c1 == c0 + nyz
                c2 == c1 + nz + 1
                c3 == c0 + nz + 1
                c4 == c0 + 1
                c5 == c4 + nyz
                c6 == c5 + nz + 1
                c7 == c4 + nz + 1
            IN  Arr(<<c0, c1, c2, c3, c4, c5, c6, c7>>)]

(* np.sum along an axis: the sum of the entries a[0] .. a[n-1] *)
RECURSIVE SumOver(_, _)
SumOver(a, n) == IF n = 0 THEN 0 ELSE a[n - 1] + SumOver(a, n - 1)

(* np.sum(node[cell, :], axis=1): per cell and axis the sum over its node rows;
   the barycentre bc is this sum over cell.shape[1] *)
cornerSum(nd, cl) ==
    [n \in DOMAIN cl |->
        [d \in Axes |-> SumOver([v \in DOMAIN cl[n] |-> nd[cl[n][v]][d]], Size(cl[n]))]]

(* threshold is None *)
NoThreshold == [given |-> FALSE, flags |-> {}]

(* cell = cell with the old node numbers left in place *)
RenumberSkipped(idxMap, cl) == cl

(* cell = idxMap[cell] *)
Renumber(idxMap, cl) == [n \in DOMAIN cl |-> [v \in DOMAIN cl[n] |-> idxMap[cl[n][v]]]]

(* the body of if threshold is not None; threshold(bc) is a callable, given
   by the barycentres it flags *)
boxFilter(threshold, nd, cl) ==
    LET bc          == cornerSum(nd, cl)
        isDelCell   == [n \in DOMAIN cl |-> bc[n] \in threshold.flags]
        kept        == Take(cl, Where({n \in DOMAIN cl : ~isDelCell[n]}))
        isValidNode == [v \in DOMAIN nd |-> \E n \in DOMAIN kept : v \in Range(kept[n])]
        valid       == Where({v \in DOMAIN nd : isValidNode[v]})
        idxMap      == [v \in DOMAIN nd |-> IF isValidNode[v] THEN IndexIn(valid, v) ELSE 0]
    IN  [node |-> Take(nd, valid), cell |-> Renumber(idxMap, kept)]

(* from_box: the node rows and the cell array handed to cls(node, cell) *)
from_box(nx, ny, nz, threshold) ==
    LET nd == boxNode(nx, ny, nz)
        cl == boxCell(nx, ny, nz)
    IN  IF threshold.given THEN boxFilter(threshold, nd, cl)
        ELSE [node |-> nd, cell |-> cl]

(* the subsets of S of at most k elements *)
RECURSIVE SubsetsUpTo(_, _)
SubsetsUpTo(S, k) ==
    IF k = 0 THEN {{}}
    ELSE LET T == SubsetsUpTo(S, k - 1)
         IN  T \cup {t \cup {x} : t \in T, x \in S}

(* the thresholds handed to from_box on an nx by ny by nz grid *)
Thresholds(nx, ny, nz) ==
    LET bcs == Range(cornerSum(boxNode(nx, ny, nz), boxCell(nx, ny, nz)))
    IN  {NoThreshold} \cup
        {[given |-> TRUE, flags |-> F] : F \in SubsetsUpTo(bcs, MaxDel)}

(* an __init__ that swallows the exception and returns the mesh all the same *)
ConstructorReturnsAnyway(e) == IF e = "" THEN "construct" ELSE "built"

(* an exception raised while the data structure is built leaves __init__ *)
ConstructorOutcome(e) == IF e = "" THEN "construct" ELSE "failed"

(* self.node = node.copy(): the attribute is bound to a new array *)
KeepCopy(obj) == "copy made by the constructor"

(* self.node = node: the attribute is bound to the argument itself *)
KeepReference(obj) == obj

(* HexahedronMesh.__init__ up to the construction of self.ds *)
MeshInit ==
    /\ pc = "new"
    /\ pc' = "construct"
    /\ nodeRef' = KeepReference(NodeArg)
    /\ cellRef' = CellArg
    /\ UNCHANGED <<input, pou, err, nextCell, topology, numbering, regOrder>>

(* row c of a per-cell table *)
Put(a, c, x) == [i \in (DOMAIN a) \cup {c} |-> IF i = c THEN x ELSE a[i]]

(* the pass registers the edges and the faces of cell c *)
RegisterCellAt(c) ==
    LET cl  == cell[c]
        se  == RegisterEdges([edge |-> edge, row |-> Empty], cl, 0)
        sf  == RegisterFaces([face |-> face, face2cell |-> face2cell,
                              face2edge |-> face2edge, row |-> Empty,
                              perm |-> Empty, err |-> ""], c, cl, se.row, 0)
        e   == IF IsDegenerate(cl) THEN "ValidationError" ELSE sf.err
    IN  /\ err' = e
        /\ pc' = ConstructorOutcome(e)
        /\ IF e = ""
           THEN /\ nextCell' = nextCell + 1
                /\ regOrder' = Append(regOrder, c)
                /\ edge' = se.edge
                /\ cell2edge' = Put(cell2edge, c, se.row)
                /\ face' = sf.face
                /\ face2cell' = sf.face2cell
                /\ face2edge' = sf.face2edge
                /\ cell2face' = Put(cell2face, c, sf.row)
                /\ cell2facePerm' = Put(cell2facePerm, c, sf.perm)
           ELSE /\ nextCell' = 0
                /\ regOrder' = << >>
                /\ face' = Empty /\ edge' = Empty /\ face2cell' = Empty
                /\ cell2face' = Empty /\ cell2facePerm' = Empty
                /\ cell2edge' = Empty /\ face2edge' = Empty
        /\ UNCHANGED <<input, pou, numbering, refs>>

(* the pass takes the cells in ascending index *)
RegisterCell ==
    /\ pc = "construct"
    /\ nextCell < NC
    /\ RegisterCellAt(nextCell)

(* the pass takes the cells in any order *)
RegisterAnyCell ==
    /\ pc = "construct"
    /\ \E c \in (DOMAIN cell) \ (DOMAIN cell2face) : RegisterCellAt(c)

(* the pass is over: the constructor returns the mesh *)
MeshBuilt ==
    /\ pc = "construct"
    /\ nextCell = NC
    /\ pc' = "built"
    /\ UNCHANGED <<input, pou, err, nextCell, topology, numbering, regOrder, refs>>

(* the classmethod from_box up to its call cls(node, cell) *)
FromBox ==
    /\ pc = "classmethod"
    /\ \E nx \in 1..MaxN, ny \in 1..MaxN, nz \in 1..MaxN :
        /\ nx * ny * nz <= MaxCells
        /\ \E threshold \in Thresholds(nx, ny, nz) :
            LET m == from_box(nx, ny, nz, threshold)
            IN  /\ node' = Size(m.node)
                /\ cell' = m.cell
                /\ ret' = [fn |-> "from_box",
                           arg |-> [nx |-> nx, ny |-> ny, nz |-> nz, threshold |-> threshold],
                           out |-> "cls(node, cell)", trace |-> << >>, val |-> m]
    /\ pc' = "new"
    /\ UNCHANGED <<meshtype, pou, err, nextCell, topology, regOrder, refs>>
    /\ UNCHANGED <<p, edge2ipoint, face2ipoint, cell2ipoint, last>>

(* the mesh is built and the caller holds no result of a call *)
Idle == pc = "built" /\ last = "" /\ ret.fn = ""

(* edge_to_ipoint takes the orders from 1 on *)
OrderAccepted(q) == q >= 1

(* a numbering query stopped by the order check *)
Rejected(fn, q) ==
    [fn |-> fn, arg |-> <<q>>, out |-> "ConfigError", trace |-> << >>, val |-> << >>]

(* line 338 written as an assignment into the cached table, face2edge[:] = ... *)
ShiftedInPlace(f2e) == [f \in DOMAIN f2e |-> Take(f2e[f], shift)]

(* line 338 binds the local name to the shifted copy that the fancy index
   makes: the table cached by the data structure is the one it was *)
CachedAfterShift(f2e) == f2e

FaceToIpoint ==
    /\ Idle
    /\ meshtype = "hex"
    /\ \E q \in 0..MaxP :
        IF OrderAccepted(q)
        THEN /\ p' = q
             /\ edge2ipoint' = edge_to_ipoint(q)
             /\ face2ipoint' = face_to_ipoint(q)
             /\ last' = "face_to_ipoint"
             /\ ret' = NoRet
        ELSE /\ ret' = Rejected("face_to_ipoint", q)
             /\ UNCHANGED <<p, edge2ipoint, face2ipoint, last>>
    /\ cell2ipoint' = Empty
    /\ UNCHANGED <<input, pou, pc, err, nextCell, topology, regOrder, refs>>

CellToIpoint ==
    /\ Idle
    /\ meshtype = "hex"
    /\ \E q \in 0..MaxP :
        IF OrderAccepted(q)
        THEN LET f2ip == face_to_ipoint(q)
             IN  /\ p' = q
                 /\ edge2ipoint' = edge_to_ipoint(q)
                 /\ face2ipoint' = f2ip
                 /\ cell2ipoint' = cell_to_ipoint(q, f2ip)
                 /\ face2edge' = CachedAfterShift(face2edge)
                 /\ last' = "cell_to_ipoint"
                 /\ ret' = NoRet
        ELSE /\ ret' = Rejected("cell_to_ipoint", q)
             /\ UNCHANGED <<p, edge2ipoint, face2ipoint, cell2ipoint, last, face2edge>>
    /\ UNCHANGED <<input, pou, pc, err, nextCell, regOrder, refs>>
    /\ UNCHANGED <<face, edge, face2cell, cell2face, cell2facePerm, cell2edge>>

CellToIpoint0 ==
    /\ Idle
    /\ meshtype = "hex"
    /\ \E q \in 0..MaxP :
        IF OrderAccepted(q)
        THEN LET f2ip == face_to_ipoint(q)
             IN  /\ p' = q
                 /\ edge2ipoint' = edge_to_ipoint(q)
                 /\ face2ipoint' = f2ip
                 /\ cell2ipoint' = cell_to_ipoint0(q, f2ip)
                 /\ last' = "cell_to_ipoint0"
                 /\ ret' = NoRet
        ELSE /\ ret' = Rejected("cell_to_ipoint0", q)
             /\ UNCHANGED <<p, edge2ipoint, face2ipoint, cell2ipoint, last>>
    /\ UNCHANGED <<input, pou, pc, err, nextCell, topology, regOrder, refs>>

InterpolationPoints ==
    /\ Idle
    /\ meshtype = "hex"
    /\ \E q \in 0..MaxP :
        ret' = IF OrderAccepted(q)
               THEN [fn |-> "interpolation_points", arg |-> <<q>>, out |-> "returned",
                     trace |-> << >>,
                     val |-> interpolation_points(q, cell_to_ipoint(q, face_to_ipoint(q)))]
               ELSE Rejected("interpolation_points", q)
    /\ UNCHANGED <<input, pou, pc, err, nextCell, topology, regOrder, refs>>
    /\ UNCHANGED <<p, edge2ipoint, face2ipoint, cell2ipoint, last>>

NumberOfGlobalIpoints ==
    /\ Idle
    /\ meshtype = "hex"
    /\ \E q \in 0..MaxP :
        ret' = [fn |-> "number_of_global_ipoints", arg |-> <<q>>, out |-> "returned",
                trace |-> << >>, val |-> number_of_global_ipoints(q)]
    /\ UNCHANGED <<input, pou, pc, err, nextCell, topology, regOrder, refs>>
    /\ UNCHANGED <<p, edge2ipoint, face2ipoint, cell2ipoint, last>>

(* uniform_refine(n): n rounds of a loop whose body is pass *)
UniformRefine ==
    /\ Idle
    /\ meshtype = "hex"
    /\ \E n \in 0..MaxRefine :
        ret' = [fn |-> "uniform_refine", arg |-> <<n>>, out |-> "returned",
                trace |-> << >>, val |-> "None"]
    /\ UNCHANGED <<input, pou, pc, err, nextCell, topology, regOrder, refs>>
    /\ UNCHANGED <<p, edge2ipoint, face2ipoint, cell2ipoint, last>>

BcToPoint ==
    /\ Idle
    /\ meshtype = "hex"
    /\ \E kind \in BcKinds, sl \in BOOLEAN, k \in 0..1 : ret' = bc_to_point(kind, sl, k)
    /\ UNCHANGED <<input, pou, pc, err, nextCell, topology, regOrder, refs>>
    /\ UNCHANGED <<p, edge2ipoint, face2ipoint, cell2ipoint, last>>

GradShapeFunction ==
    /\ Idle
    /\ meshtype = "hex"
    /\ \E TD \in 1..3, variables \in {"u", "x"}, singular \in BOOLEAN :
        ret' = grad_shape_function(TD, variables, singular)
    /\ UNCHANGED <<input, pou, pc, err, nextCell, topology, regOrder, refs>>
    /\ UNCHANGED <<p, edge2ipoint, face2ipoint, cell2ipoint, last>>

JacobiMatrix ==
    /\ Idle
    /\ meshtype = "hex"
    /\ \E TD \in 2..3 : ret' = jacobi_matrix(TD)
    /\ UNCHANGED <<input, pou, pc, err, nextCell, topology, regOrder, refs>>
    /\ UNCHANGED <<p, edge2ipoint, face2ipoint, cell2ipoint, last>>

CellVolume ==
    /\ Idle
    /\ meshtype = "hex"
    /\ ret' = Measure("cell_volume")
    /\ UNCHANGED <<input, pou, pc, err, nextCell, topology, regOrder, refs>>
    /\ UNCHANGED <<p, edge2ipoint, face2ipoint, cell2ipoint, last>>

FaceArea ==
    /\ Idle
    /\ meshtype = "hex"
    /\ ret' = Measure("face_area")
    /\ UNCHANGED <<input, pou, pc, err, nextCell, topology, regOrder, refs>>
    /\ UNCHANGED <<p, edge2ipoint, face2ipoint, cell2ipoint, last>>

(* entity('node') and entity('cell') *)
Entity ==
    /\ Idle
    /\ \E etype \in {"node", "cell"} :
        ret' = [fn |-> "entity", arg |-> <<etype>>, out |-> "returned", trace |-> << >>,
                val |-> IF etype = "node" THEN nodeRef ELSE cellRef]
    /\ UNCHANGED <<input, pou, pc, err, nextCell, topology, regOrder, refs>>
    /\ UNCHANGED <<p, edge2ipoint, face2ipoint, cell2ipoint, last>>

(* the caller lets go of what the last call gave back *)
DropResult ==
    /\ pc = "built"
    /\ ~Idle
    /\ p' = 0
    /\ edge2ipoint' = Empty /\ face2ipoint' = Empty /\ cell2ipoint' = Empty
    /\ last' = ""
    /\ ret' = NoRet
    /\ UNCHANGED <<input, pou, pc, err, nextCell, topology, regOrder, refs>>

Queries ==
    \/ FaceToIpoint \/ CellToIpoint \/ CellToIpoint0 \/ InterpolationPoints
    \/ NumberOfGlobalIpoints \/ UniformRefine \/ BcToPoint \/ GradShapeFunction
    \/ JacobiMatrix \/ CellVolume \/ FaceArea \/ Entity \/ DropResult

Next == MeshInit \/ RegisterCell \/ MeshBuilt \/ Queries

Spec == Init /\ [][Next]_vars

NextAnyOrder == MeshInit \/ RegisterAnyCell \/ MeshBuilt

SpecAnyOrder == Init /\ [][NextAnyOrder]_vars

(* nothing is built and no result is held *)
NothingBuilt ==
    /\ err = ""
    /\ nextCell = 0
    /\ face = Empty /\ edge = Empty /\ face2cell = Empty /\ cell2face = Empty
    /\ cell2facePerm = Empty /\ cell2edge = Empty /\ face2edge = Empty
    /\ p = 0
    /\ edge2ipoint = Empty /\ face2ipoint = Empty /\ cell2ipoint = Empty
    /\ last = ""
    /\ ret = NoRet
    /\ regOrder = << >>
    /\ nodeRef = NoObject /\ cellRef = NoObject
    /\ PoUImported

(* before the call HexahedronMesh.from_box(...) *)
InitBox ==
    /\ node = 0 /\ cell = Empty /\ meshtype = "hex"
    /\ pc = "classmethod"
    /\ NothingBuilt

NextBox == FromBox \/ MeshInit \/ RegisterCell \/ MeshBuilt

SpecBox == InitBox /\ [][NextBox]_vars

(* ------------------------- partitions of unity ------------------------- *)

(* derivative order asked of derivative_basis, at most *)
MaxOrder == 5

(* x.shape[-1]: the number of axes of the points *)
GD == 2

(* the base class named in each class statement: _PoU_Sin_Fn of pou.py, and
   the classes a caller derives *)
base(C) ==
    CASE C = "_PoU_Fn" -> "Module"
      [] C = "_PoU_Sin_Fn" -> "_PoU_Fn"
      [] C = "UserFn" -> "_PoU_Fn"
      [] C = "UserSinFn" -> "_PoU_Sin_Fn"

(* _PoU_Fn and its subclasses *)
PoUFnClasses == {"_PoU_Fn", "_PoU_Sin_Fn", "UserFn", "UserSinFn"}

(* cls._instance: the attribute is read from the first class that has it
   along the bases of cls *)
RECURSIVE Lookup(_, _)
Lookup(attr, C) == IF C \in DOMAIN attr THEN attr[C] ELSE Lookup(attr, base(C))

(* _PoU_Fn.__new__, called as C() *)
New ==
    /\ pc = "ml"
    /\ \E C \in PoUFnClasses :
        LET found == Lookup(clsInstance, C)
            o     == Len(heap) + 1
        IN  IF found = None
            THEN /\ heap' = Append(heap, C)
                 /\ clsInstance' = Put(clsInstance, C, o)
                 /\ given' = [given EXCEPT ![C] = @ \cup {o}]
                 /\ ret' = [fn |-> "__new__", arg |-> C, out |-> "returned",
                            trace |-> << >>, val |-> o]
            ELSE /\ heap' = heap
                 /\ clsInstance' = clsInstance
                 /\ given' = [given EXCEPT ![C] = @ \cup {found}]
                 /\ ret' = [fn |-> "__new__", arg |-> C, out |-> "returned",
                            trace |-> << >>, val |-> found]
    /\ UNCHANGED <<input, pc, err, nextCell, topology, regOrder, refs>>
    /\ UNCHANGED <<p, edge2ipoint, face2ipoint, cell2ipoint, last>>

(* _PoU_Fn.dn on the _PoU_Sin_Fn object: the method the order selects *)
dn(order) ==
    IF order = 0 THEN "forward"
    ELSE IF order >= 1
         THEN IF order \in 1..4 THEN "d" ELSE "NotImplementedError"
         ELSE "ValueError"

(* os of PoUSin.derivative: per axis the number of times idx names it *)
os(idx) == [i \in 0..(GD - 1) |-> Cardinality({k \in DOMAIN idx : idx[k] = i})]

(* PoUSin.derivative(x, *idx): the product over the axes of func.dn(x_i, os[i]) *)
derivative(idx) ==
    IF \E i \in 0..(GD - 1) : dn(os(idx)[i]) = "NotImplementedError"
    THEN [out |-> "NotImplementedError", val |-> << >>]
    ELSE [out |-> "returned", val |-> os(idx)]

(* one ret += pou-factor * space-factor: the derivatives taken of each factor *)
Term(pouIdx, spaceIdx) == [pou |-> os(pouIdx), space |-> os(spaceIdx)]

(* PoULocalSpace.derivative_basis(p, *idx): the terms added to the zero tensor *)
derivative_basis(idx) ==
    LET order == Len(idx)
        i0    == <<idx[1]>>
        i1    == <<idx[2]>>
        i2    == <<idx[3]>>
    IN  IF order = 0 THEN [out |-> "returned", val |-> <<Term(<< >>, << >>)>>]
        ELSE IF order = 1
        THEN [out |-> "returned", val |-> <<Term(i0, << >>), Term(<< >>, i0)>>]
        ELSE IF order = 2
        THEN [out |-> "returned",
              val |-> <<Term(i0 \o i1, << >>), Term(i0, i1), Term(i1, i0),
                        Term(<< >>, i0 \o i1)>>]
        ELSE IF order = 3
        THEN [out |-> "returned",
              val |-> <<Term(i0 \o i1 \o i2, << >>), Term(i0 \o i1, i2),
                        Term(i1 \o i2, i0), Term(i2 \o i0, i1),
                        Term(i0, i2 \o i1), Term(i1, i0 \o i2), Term(i2, i1 \o i0),
                        Term(<< >>, i0 \o i1 \o i2)>>]
        ELSE IF order = 4 THEN [out |-> "returned", val |-> << >>]
        ELSE [out |-> "NotImplementedError", val |-> << >>]

(* the multi-indices handed to derivative and derivative_basis *)
MultiIndices == UNION {[1..n -> 0..(GD - 1)] : n \in 0..MaxOrder}

(* a call of PoUSin.derivative *)
Derivative ==
    /\ pc = "ml"
    /\ \E idx \in MultiIndices :
        ret' = [fn |-> "derivative", arg |-> idx, out |-> derivative(idx).out,
                trace |-> << >>, val |-> derivative(idx).val]
    /\ UNCHANGED <<input, pou, pc, err, nextCell, topology, regOrder, refs>>
    /\ UNCHANGED <<p, edge2ipoint, face2ipoint, cell2ipoint, last>>

(* a call of PoULocalSpace.derivative_basis *)
DerivativeBasis ==
    /\ pc = "ml"
    /\ \E idx \in MultiIndices :
        ret' = [fn |-> "derivative_basis", arg |-> idx, out |-> derivative_basis(idx).out,
                trace |-> << >>, val |-> derivative_basis(idx).val]
    /\ UNCHANGED <<input, pou, pc, err, nextCell, topology, regOrder, refs>>
    /\ UNCHANGED <<p, edge2ipoint, face2ipoint, cell2ipoint, last>>

(* pou.py is imported and no mesh is in the making *)
InitPoU ==
    /\ node = 0 /\ cell = Empty /\ meshtype = "hex"
    /\ pc = "ml"
    /\ NothingBuilt

NextPoU == New \/ Derivative \/ DerivativeBasis

SpecPoU == InitPoU /\ [][NextPoU]_vars

(* ------------------------------ claims --------------------------------- *)

CellNumbered == pc = "built" /\ last = "cell_to_ipoint"

FaceNumbered == pc = "built" /\ last \in {"face_to_ipoint", "cell_to_ipoint"}

(* a set of (point, index) pairs gives every point one index only *)
OneIndexPerPoint(pairs) == Cardinality({pi[1] : pi \in pairs}) = Cardinality(pairs)

(* C1: two local numbers of two cells that denote the same physical point
   carry the same global index in cell_to_ipoint(p) *)
C1_SharedPointSameIndex ==
    CellNumbered =>
        OneIndexPerPoint(UNION {{<<cellPoint(p, c, n), cell2ipoint[c][n]>> :
                                    n \in DOMAIN cell2ipoint[c]} : c \in DOMAIN cell})

(* bc_to_point on a face: vertex 0 sits at (0, 0), 1 at (q, 0), 2 at (q, q) and
   3 at (0, q); the point of face f at local number n, kept as for cellPoint *)
faceCorner == Arr(<< Arr(<<0, 0>>), Arr(<<1, 0>>), Arr(<<1, 1>>), Arr(<<0, 1>>) >>)

facePoint(q, f, n) ==
    LET m == faceMultiIndex(q, n)
        w(v) == LET x == faceCorner[v]
                IN  (IF x[0] = 1 THEN m[0] ELSE q - m[0])
                  * (IF x[1] = 1 THEN m[1] ELSE q - m[1])
    IN  {<<face[f][v], w(v)>> : v \in {u \in DOMAIN face[f] : w(u) > 0}}

(* local number on a face of the corner held by face vertex v *)
FaceCornerNumber(q, v) == faceCorner[v][0] * q * (q + 1) + faceCorner[v][1] * q

(* C2: each side of each face carries its edge's points, forward when the side
   starts at the edge's first node and reversed otherwise; the corners carry
   the face's nodes; two faces agree at every common point of an edge *)
C2_FaceSidesFollowEdges ==
    FaceNumbered =>
        /\ \A f \in DOMAIN face : \A i \in 0..(NEF - 1) :
            LET ge  == face2edge[f][i]
                dof == faceDofidx(p, i)
            IN  \A k \in 0..p :
                    face2ipoint[f][dof[k]] =
                        IF face[f][faceLocalEdge[i][0]] = edge[ge][0]
                        THEN edge2ipoint[ge][k] ELSE edge2ipoint[ge][p - k]
        /\ \A f \in DOMAIN face : \A v \in DOMAIN face[f] :
            face2ipoint[f][FaceCornerNumber(p, v)] = face[f][v]
        /\ LET onSide == {n \in 0..((p + 1) * (p + 1) - 1) :
                            \E d \in 0..1 : faceMultiIndex(p, n)[d] \in {0, p}}
           IN  OneIndexPerPoint(UNION {{<<facePoint(p, f, n), face2ipoint[f][n]>> :
                                            n \in onSide} : f \in DOMAIN face})

(* a face whose side runs against its edge has been numbered with p >= 3 *)
C2_Witness ==
    /\ FaceNumbered
    /\ p >= 3
    /\ \E f \in DOMAIN face : \E i \in 0..(NEF - 1) : FaceSideReversed(f, i)
    /\ \E f1, f2 \in DOMAIN face : f1 # f2 /\ Range(face2edge[f1]) \cap Range(face2edge[f2]) # {}

(* C3: the indices of cell_to_ipoint(p) are exactly 0 .. T-1 with
   T = number_of_global_ipoints(p) *)
C3_IndicesFillRange ==
    CellNumbered =>
        LET used == UNION {Range(cell2ipoint[c]) : c \in DOMAIN cell}
            T    == number_of_global_ipoints(p)
        IN  /\ used = 0..(T - 1)
            /\ T = NN + NE * (p - 1) + NF * (p - 1) * (p - 1)
                      + NC * (p - 1) * (p - 1) * (p - 1)

C3_Witness == CellNumbered /\ p >= 2 /\ NC >= 2

(* how many coordinates of a multi-index lie on the boundary values 0 and q *)
OnBoundary(q, m) == Cardinality({d \in DOMAIN m : m[d] \in {0, q}})

nodeTier == 0..(NN - 1)

edgeTier(q) == NN..(NN + NE * (q - 1) - 1)

faceBase(q) == NN + NE * (q - 1)

cellBase(q) == faceBase(q) + NF * (q - 1) * (q - 1)

(* C4: corners hold node-tier indices, edge-interior points edge-tier indices,
   the interior of face f is the f-th block after faceBase, the interior of
   cell c is the c-th block after cellBase, and a cell-interior index occurs
   once in the whole of cell_to_ipoint(p) *)
C4_TieredLayout ==
    /\ FaceNumbered =>
        LET N   == 0..((p + 1) * (p + 1) - 1)
            blk == (p - 1) * (p - 1)
        IN  \A f \in DOMAIN face :
                /\ \A n \in N :
                    LET k == OnBoundary(p, faceMultiIndex(p, n))
                    IN  /\ k = 2 => face2ipoint[f][n] \in nodeTier
                        /\ k = 1 => face2ipoint[f][n] \in edgeTier(p)
                /\ {face2ipoint[f][n] : n \in {x \in N : OnBoundary(p, faceMultiIndex(p, x)) = 0}}
                        = (faceBase(p) + f * blk)..(faceBase(p) + (f + 1) * blk - 1)
    /\ CellNumbered =>
        LET N   == 0..((p + 1) * (p + 1) * (p + 1) - 1)
            blk == (p - 1) * (p - 1) * (p - 1)
            inner == {x \in N : OnBoundary(p, cellMultiIndex(p, x)) = 0}
        IN  /\ \A c \in DOMAIN cell :
                /\ \A n \in N :
                    LET k == OnBoundary(p, cellMultiIndex(p, n))
                    IN  /\ k = 3 => cell2ipoint[c][n] \in nodeTier
                        /\ k = 2 => cell2ipoint[c][n] \in edgeTier(p)
                        /\ k = 1 => cell2ipoint[c][n] \in faceBase(p)..(cellBase(p) - 1)
                /\ {cell2ipoint[c][n] : n \in inner}
                        = (cellBase(p) + c * blk)..(cellBase(p) + (c + 1) * blk - 1)
            /\ \A x \in cellBase(p)..(cellBase(p) + NC * blk - 1) :
                Cardinality({cn \in (DOMAIN cell) \X N : cell2ipoint[cn[1]][cn[2]] = x}) = 1

C4_Witness == CellNumbered /\ p >= 3 /\ NC >= 2

(* the vertex that interpolation_points puts at each local number of order 1 *)
ipointVertex == [n \in 0..(NVC - 1) |-> VertexAt(cellMultiIndex(1, n))]

(* C5: for p = 1 the row of a cell is its 8 nodes, the vertex at reference
   corner (i, j, k) at position 4i + 2j + k, and the point count is NN *)
C5_OrderOneIsNodes ==
    (CellNumbered /\ p = 1) =>
        /\ \A c \in DOMAIN cell : cell2ipoint[c] = Take(cell[c], ipointVertex)
        /\ number_of_global_ipoints(1) = NN

(* ------------------------- topology queries ---------------------------- *)

boundary_face_flag == [f \in DOMAIN face |-> face2cell[f][1] = Sentinel]

boundary_edge_flag ==
    [e \in DOMAIN edge |->
        \E f \in DOMAIN face : boundary_face_flag[f] /\ e \in Range(face2edge[f])]

boundary_node_flag ==
    [v \in 0..(NN - 1) |->
        \E f \in DOMAIN face : boundary_face_flag[f] /\ v \in Range(face[f])]

(* the cells that contain all nodes of face f *)
CellsAround(f) == {c \in DOMAIN cell : Range(face[f]) \subseteq Range(cell[c])}

Built == pc = "built"

(* C6: a face (an edge in 2D) is flagged boundary iff exactly one cell is
   adjacent to it, every other one has exactly two adjacent cells; in a
   single-cell mesh every face, edge and node is flagged, and in the
   two-triangle square the 4 outer edges are flagged and the diagonal is not *)
C6_BoundaryIffOneCell ==
    Built =>
        /\ \A f \in DOMAIN face :
            /\ boundary_face_flag[f] <=> Cardinality(CellsAround(f)) = 1
            /\ ~boundary_face_flag[f] => Cardinality(CellsAround(f)) = 2
        /\ Cardinality({f \in DOMAIN face : boundary_face_flag[f]})
                = Cardinality({f \in DOMAIN face : Cardinality(CellsAround(f)) = 1})
        /\ NC = 1 =>
            /\ \A f \in DOMAIN face : boundary_face_flag[f]
            /\ \A e \in DOMAIN edge : boundary_edge_flag[e]
            /\ \A v \in 0..(NN - 1) : boundary_node_flag[v]
        /\ (meshtype = "tri" /\ cell = TwoTriangles.cell) =>
            /\ Cardinality({e \in DOMAIN edge : boundary_edge_flag[e]}) = 4
            /\ \A e \in DOMAIN edge : Range(edge[e]) = {0, 2} => ~boundary_edge_flag[e]
            /\ \E e \in DOMAIN edge : Range(edge[e]) = {0, 2}

C6_Witness ==
    /\ Built
    /\ \E f \in DOMAIN face : boundary_face_flag[f]
    /\ \E f \in DOMAIN face : ~boundary_face_flag[f]

(* the faces and the edges of the reference hexahedron, as sets of local vertices *)
hexFaces == {{v \in DOMAIN refCorner : refCorner[v][a] = x} : a \in Axes, x \in {0, 1}}

hexEdges ==
    {uv \in SUBSET (DOMAIN refCorner) :
        /\ Cardinality(uv) = 2
        /\ \A u, v \in uv :
            u # v => Cardinality({a \in Axes : refCorner[u][a] # refCorner[v][a]}) = 1}

NoTwoWithSameKey(tab) ==
    \A j, k \in DOMAIN tab : Range(tab[j]) = Range(tab[k]) => j = k

(* C7: no two entries of the face table, and no two of the edge table, have
   the same sorted node tuple, and every local face and local edge of every
   cell maps to the entry that has its sorted node tuple *)
C7_EntitiesOnce ==
    Built =>
        /\ NoTwoWithSameKey(face)
        /\ NoTwoWithSameKey(edge)
        /\ \A c \in DOMAIN cell :
            /\ \A i \in DOMAIN LocalFaceOf(meshtype) :
                Range(face[cell2face[c][i]]) = Range(Take(cell[c], LocalFaceOf(meshtype)[i]))
            /\ \A i \in DOMAIN LocalEdgeOf(meshtype) :
                Range(edge[cell2edge[c][i]]) = Range(Take(cell[c], LocalEdgeOf(meshtype)[i]))
            /\ meshtype = "hex" =>
                /\ {Range(face[j]) : j \in Range(cell2face[c])}
                        = {{cell[c][v] : v \in G} : G \in hexFaces}
                /\ {Range(edge[j]) : j \in Range(cell2edge[c])}
                        = {{cell[c][v] : v \in G} : G \in hexEdges}

(* a face between two cells and an edge between four cells have been registered *)
C7_Witness ==
    /\ Built
    /\ \E f \in DOMAIN face : ~boundary_face_flag[f]
    /\ \E e \in DOMAIN edge :
        Cardinality({c \in DOMAIN cell : e \in Range(cell2edge[c])}) >= 4

IsPermutation(q) == \A l \in DOMAIN q : Cardinality({k \in DOMAIN q : q[k] = l}) = 1

(* C8: the permutation recorded for (c, i) is a bijection of the positions
   of the local face, it carries the local face tuple onto the canonical
   tuple, and undoing it gives the local tuple back *)
C8_RecordedPermutation ==
    \A c \in DOMAIN cell2face : \A i \in DOMAIN cell2face[c] :
        LET q  == cell2facePerm[c][i]
            lf == Take(cell[c], LocalFaceOf(meshtype)[i])
        IN  /\ DOMAIN q = DOMAIN lf
            /\ IsPermutation(q)
            /\ face[cell2face[c][i]] = ApplyPerm(q, lf)
            /\ ApplyPerm(InversePerm(q), ApplyPerm(q, lf)) = lf

(* a second registrant has recorded a permutation that is not the identity *)
C8_Witness ==
    /\ Built
    /\ \E c \in DOMAIN cell2face : \E i \in DOMAIN cell2face[c] :
        \E k \in DOMAIN cell2facePerm[c][i] : cell2facePerm[c][i][k] # k

(* C9: cell-to-face and cell-to-edge hold valid indices, and face f lists
   cell c iff f is one of the faces of c *)
C9_MutualInverses ==
    Built =>
        /\ \A c \in DOMAIN cell :
            /\ Range(cell2face[c]) \subseteq DOMAIN face
            /\ Range(cell2edge[c]) \subseteq DOMAIN edge
        /\ DOMAIN cell2face = DOMAIN cell
        /\ \A f \in DOMAIN face : \A c \in DOMAIN cell :
            c \in Range(face2cell[f]) <=> f \in Range(cell2face[c])
        /\ \A f \in DOMAIN face : Range(face2cell[f]) \subseteq (DOMAIN cell) \cup {Sentinel}

C9_Witness == Built /\ NC >= 4 /\ \E f \in DOMAIN face : face2cell[f][1] # Sentinel

HasDegenerateCell == \E c \in DOMAIN cell : IsDegenerate(cell[c])

(* C10: with a cell that names a node twice the constructor fails with
   ValidationError and returns no mesh, not even the tables built so far *)
C10_DegenerateCellFails ==
    HasDegenerateCell =>
        /\ pc # "built"
        /\ pc = "failed" =>
            /\ err = "ValidationError"
            /\ face = Empty /\ edge = Empty /\ face2cell = Empty /\ face2edge = Empty
            /\ cell2face = Empty /\ cell2edge = Empty /\ cell2facePerm = Empty
        /\ last = ""

(* the pass has failed on the second cell, after registering the first *)
C10_Witness == HasDegenerateCell /\ pc = "failed" /\ err = "ValidationError" /\ NC = 2

(* the cells that have a local face with the node set of local face i of cell c *)
Claimants(c, i) ==
    {d \in DOMAIN cell : \E j \in DOMAIN LocalFaceOf(meshtype) :
        Range(Take(cell[d], LocalFaceOf(meshtype)[j]))
            = Range(Take(cell[c], LocalFaceOf(meshtype)[i]))}

HasNonManifoldFace ==
    \E c \in DOMAIN cell : \E i \in DOMAIN LocalFaceOf(meshtype) :
        Cardinality(Claimants(c, i)) >= 3

(* C11: when three or more cells claim one face key the constructor fails
   with TopologyError and returns no mesh; at no moment of the pass do three
   cells hold one face, and no built mesh has a face inside three cells *)
C11_NonManifoldFails ==
    /\ (HasNonManifoldFace /\ ~HasDegenerateCell) =>
        /\ pc # "built"
        /\ pc = "failed" =>
            /\ err = "TopologyError"
            /\ face = Empty /\ face2cell = Empty /\ cell2face = Empty
    /\ err = "TopologyError" => HasNonManifoldFace
    /\ \A f \in DOMAIN face :
        Cardinality({c \in DOMAIN cell2face : f \in Range(cell2face[c])}) <= 2
    /\ Built => \A f \in DOMAIN face : Cardinality(CellsAround(f)) <= 2

(* the pass has failed on the third claimant, after recording the first two *)
C11_Witness ==
    /\ HasNonManifoldFace
    /\ pc = "failed"
    /\ err = "TopologyError"
    /\ NC >= 3

NumberingQueries ==
    {"number_of_global_ipoints", "face_to_ipoint", "cell_to_ipoint", "interpolation_points"}

(* C12: a numbering asked for with an order p < 1 is rejected with an error
   by number_of_global_ipoints, face_to_ipoint, cell_to_ipoint and
   interpolation_points: no index table and no point count comes back for p < 1 *)
C12_OrderBelowOneRejected ==
    /\ last \in NumberingQueries => p >= 1
    /\ (ret.fn \in NumberingQueries /\ ret.arg[1] < 1) => ret.out \notin {"", "returned"}

(* C13: cell_volume() and face_area() run the quadrature implementation and
   return one measure for each cell, respectively each face; the call never
   resolves to the stub that returns nothing *)
C13_MeasureIsQuadrature ==
    ret.fn \in {"cell_volume", "face_area"} =>
        /\ ret.trace = <<"quadrature">>
        /\ ret.out = "returned"
        /\ ret.val # "None"
        /\ DOMAIN ret.val = (IF ret.fn = "cell_volume" THEN DOMAIN cell ELSE DOMAIN face)

(* the mesh that cls(node, cell) builds in from_one_hexahedron *)
FromOneHexahedron ==
    /\ meshtype = "hex"
    /\ cell = from_one_hexahedron.cell
    /\ node = Size(from_one_hexahedron.node)

(* C14: the mesh of from_one_hexahedron() is the unit cube, one cell whose 8
   nodes are the 8 distinct corners in reference local order, and
   cell_volume() on it is 1 *)
C14_UnitCube ==
    (Built /\ FromOneHexahedron) =>
        /\ NC = 1
        /\ Cardinality(Range(from_one_hexahedron.node)) = NVC
        /\ \A v \in DOMAIN cell[0] : from_one_hexahedron.node[cell[0][v]] = refCorner[v]
        /\ ret.fn = "cell_volume" =>
            /\ ret.out = "returned"
            /\ ret.val # "None"
            /\ ret.val = [c \in DOMAIN cell |-> 1]

(* the query that gave the result the caller holds, made again on the mesh
   as it is now, gives that result once more *)
RepeatGivesSame ==
    /\ last = "face_to_ipoint" => face2ipoint = face_to_ipoint(p)
    /\ last = "cell_to_ipoint" => cell2ipoint = cell_to_ipoint(p, face_to_ipoint(p))
    /\ last = "cell_to_ipoint0" => cell2ipoint = cell_to_ipoint0(p, face_to_ipoint(p))
    /\ (ret.fn = "interpolation_points" /\ ret.out = "returned") =>
        ret.val = interpolation_points(ret.arg[1],
                        cell_to_ipoint(ret.arg[1], face_to_ipoint(ret.arg[1])))

(* C15: a call of face_to_ipoint, cell_to_ipoint, cell_to_ipoint0,
   interpolation_points or uniform_refine on a built mesh leaves the node
   array, the entity tables and the cached adjacency tables as they were,
   column order included, and the same query made again right after it
   returns the table the call returned *)
C15_QueriesReadOnly ==
    /\ [][Built =>
            /\ UNCHANGED <<node, cell, meshtype>>
            /\ UNCHANGED <<face, edge, face2cell, cell2face, cell2facePerm,
                           cell2edge, face2edge>>]_vars
    /\ []RepeatGivesSame

(* cell_to_ipoint has returned on a mesh on which the column shift of a
   face's edges would show *)
C15_Witness ==
    /\ Built
    /\ last = "cell_to_ipoint"
    /\ p >= 2
    /\ NC >= 2
    /\ \E f \in DOMAIN face2edge : Take(face2edge[f], shift) # face2edge[f]

(* local face i of cell c as a node tuple *)
LocalTuple(c, i) == Take(cell[c], LocalFaceOf(meshtype)[i])

(* the pass has taken the cells in ascending index *)
AscendingOrder == \A k \in 1..Len(regOrder) : regOrder[k] = k - 1

(* the cell among S that the pass has registered first *)
FirstRegistered(S) ==
    LET at(c) == CHOOSE k \in 1..Len(regOrder) : regOrder[k] = c
    IN  CHOOSE c \in S : \A d \in S : at(c) <= at(d)

(* the first (cell, local face) in ascending order that holds face f *)
FirstClaim(f) ==
    LET n  == Size(LocalFaceOf(meshtype))
        ks == {c * n + i : <<c, i>> \in {ci \in (DOMAIN cell) \X (0..(n - 1)) :
                                            cell2face[ci[1]][ci[2]] = f}}
    IN  CHOOSE k \in ks : \A l \in ks : k <= l

(* C16: whatever the order in which the pass takes the cells, it fails on
   the same inputs, and when it succeeds the faces and the edges are the node
   sets of the cells' local faces and edges, once each; boundary flags and
   adjacency are those of the node sets; the two cells of a face have
   recorded permutations onto one canonical tuple, the local order of the
   cell registered first; in ascending order that is the lowest cell and
   the faces are numbered by first appearance *)
C16_OrderIndependent ==
    /\ (HasDegenerateCell \/ HasNonManifoldFace) => pc # "built"
    /\ Built =>
        /\ {Range(face[f]) : f \in DOMAIN face}
                = {Range(LocalTuple(c, i)) :
                        c \in DOMAIN cell, i \in DOMAIN LocalFaceOf(meshtype)}
        /\ {Range(edge[e]) : e \in DOMAIN edge}
                = {Range(Take(cell[c], LocalEdgeOf(meshtype)[i])) :
                        c \in DOMAIN cell, i \in DOMAIN LocalEdgeOf(meshtype)}
        /\ NoTwoWithSameKey(face)
        /\ NoTwoWithSameKey(edge)
        /\ \A f \in DOMAIN face :
            /\ boundary_face_flag[f] <=> Cardinality(CellsAround(f)) = 1
            /\ Range(face2cell[f]) \ {Sentinel} = CellsAround(f)
            /\ face2cell[f][0] = FirstRegistered(CellsAround(f))
            /\ \E i \in DOMAIN LocalFaceOf(meshtype) : face[f] = LocalTuple(face2cell[f][0], i)
        /\ \A e \in DOMAIN edge :
            boundary_edge_flag[e] <=>
                \E c \in DOMAIN cell : \E i \in DOMAIN LocalFaceOf(meshtype) :
                    /\ Cardinality(Claimants(c, i)) = 1
                    /\ Range(LocalTuple(c, i)) \cap Range(edge[e]) = Range(edge[e])
                    /\ \E j \in Range(LocalFace2edgeOf(meshtype)[i]) :
                        Range(Take(cell[c], LocalEdgeOf(meshtype)[j])) = Range(edge[e])
        /\ \A c \in DOMAIN cell : \A i \in DOMAIN LocalFaceOf(meshtype) :
            /\ Range(face[cell2face[c][i]]) = Range(LocalTuple(c, i))
            /\ ApplyPerm(cell2facePerm[c][i], LocalTuple(c, i)) = face[cell2face[c][i]]
        /\ AscendingOrder =>
            /\ \A f \in DOMAIN face :
                /\ \A c \in CellsAround(f) : face2cell[f][0] <= c
                /\ \A g \in DOMAIN face : f < g => FirstClaim(f) < FirstClaim(g)

(* a mesh of four cells built in an order that is not the ascending one, with
   a face whose second cell has the lower index *)
C16_Witness ==
    /\ Built
    /\ ~AscendingOrder
    /\ NC >= 4
    /\ \E f \in DOMAIN face : face2cell[f][1] # Sentinel /\ face2cell[f][1] < face2cell[f][0]

(* C17: grad_shape_function(bc, p, variables='x') on cells or faces returns
   the gradients, or fails with NumericError when an entity is singular; it
   returns no zeroed values and fails for no other reason *)
C17_GradientOrNumericError ==
    (ret.fn = "grad_shape_function" /\ ret.arg[2] = "x" /\ ret.arg[1] \in {2, 3}) =>
        /\ ret.out \in {"returned", "NumericError"}
        /\ ret.out = "NumericError" <=> ret.arg[3]
        /\ ret.out = "returned" => ret.val # "zeros"

(* C18: the mesh holds the node array and the cell array of the caller
   themselves, from the constructor on and after every query, and
   entity('node') and entity('cell') return these very objects *)
C18_ArraysKeptByReference ==
    /\ pc \in {"construct", "built"} => (nodeRef = NodeArg /\ cellRef = CellArg)
    /\ ret.fn = "entity" =>
        ret.val = (IF ret.arg[1] = "node" THEN NodeArg ELSE CellArg)

(* entity('node') has returned on the two-triangle mesh of the tests *)
C18_Witness ==
    /\ Built
    /\ meshtype = "tri"
    /\ ret.fn = "entity"
    /\ ret.arg[1] = "node"
    /\ ret.val = NodeArg

(* the face vertex that face_to_ipoint(1) stores at each local number *)
faceIpointVertex ==
    [n \in 0..(NVF - 1) |-> CHOOSE v \in DOMAIN faceCorner : faceCorner[v] = faceMultiIndex(1, n)]

(* C19: the column list that bc_to_point and jacobi_matrix apply to the node
   tuple of an entity is a permutation of its local vertex positions, 0..7
   for a cell and 0..3 for a face, and puts vertex v where cell_to_ipoint(1),
   respectively face_to_ipoint(1), stores its node *)
C19_ReorderIsPermutation ==
    /\ ret.fn = "bc_to_point" =>
        \A k \in 1..Len(ret.trace) :
            LET t == ret.trace[k]
            IN  /\ t.branch = "cell" =>
                    /\ IsPermutation(cellVertexOrder)
                    /\ \A r \in DOMAIN t.gather : \E c \in DOMAIN cell :
                        t.gather[r] = Take(cell[c], ipointVertex)
                /\ t.branch = "face" =>
                    /\ IsPermutation(faceVertexOrder)
                    /\ \A r \in DOMAIN t.gather : \E f \in DOMAIN face :
                        t.gather[r] = Take(face[f], faceIpointVertex)
    /\ ret.fn = "jacobi_matrix" =>
        LET order == jacobiVertexOrder(ret.arg[1])
        IN  /\ IsPermutation(order)
            /\ order = (IF ret.arg[1] = 3 THEN ipointVertex ELSE faceIpointVertex)

(* C20: bc_to_point runs one mapping branch in a call and returns its
   result: the cell branch for a 3-tuple, the face branch for a 2-tuple, the
   edge branch for anything else; the edge branch selects from the edge table
   by index once *)
C20_OneBranchPerCall ==
    ret.fn = "bc_to_point" =>
        /\ Len(ret.trace) = 1
        /\ ret.trace[1].branch =
            (IF ret.arg[1] = "tuple3" THEN "cell"
             ELSE IF ret.arg[1] = "tuple2" THEN "face" ELSE "edge")
        /\ \A k \in 1..Len(ret.trace) :
            ret.trace[k].branch = "edge" => ret.trace[k].uses = 1
        /\ ret.out = "returned" => ret.val = ret.trace[1].branch

(* the grid boxes of an nx by ny by nz grid, as the position (i, j, k) of
   their lowest corner, in the order of the cells of the unfiltered grid *)
GridBoxes(nx, ny, nz) ==
    [n \in 0..(nx * ny * nz - 1) |-> Arr(<<n \div (ny * nz), (n \div nz) % ny, n % nz>>)]

(* the sum of the 8 corners of the grid box at b: 8 times its barycentre *)
BoxCornerSum(b) == [d \in Axes |-> 8 * b[d] + 4]

(* the grid boxes that a threshold leaves in place, in grid order *)
KeptBoxes(a) ==
    LET g == GridBoxes(a.nx, a.ny, a.nz)
    IN  Take(g, Where({n \in DOMAIN g :
                ~(a.threshold.given /\ BoxCornerSum(g[n]) \in a.threshold.flags)}))

(* row x comes before row y in the order of the grid nodes *)
RowBefore(x, y) ==
    \/ x[0] < y[0]
    \/ x[0] = y[0] /\ x[1] < y[1]
    \/ x[0] = y[0] /\ x[1] = y[1] /\ x[2] < y[2]

(* from_box has made its arrays and handed them to the constructor *)
FromBoxCalled == ret.fn = "from_box"

(* C21: from_box builds nx*ny*nz cells over (nx+1)(ny+1)(nz+1) grid nodes,
   each cell holding the 8 distinct corners of one grid box in reference
   local order; with a threshold the mesh keeps exactly the cells that are
   not flagged and exactly the nodes they refer to, renumbered in their old
   order onto 0..NN'-1: every cell entry is in range, every node is used,
   and each cell refers to the coordinates it referred to before *)
C21_BoxGrid ==
    FromBoxCalled =>
        LET a     == ret.arg
            nd    == ret.val.node
            cl    == ret.val.cell
            boxes == KeptBoxes(a)
        IN  /\ node = Size(nd) /\ cell = cl /\ meshtype = "hex"
            /\ ~a.threshold.given =>
                /\ Size(cl) = a.nx * a.ny * a.nz
                /\ Size(nd) = (a.nx + 1) * (a.ny + 1) * (a.nz + 1)
            /\ DOMAIN cl = DOMAIN boxes
            /\ \A n \in DOMAIN cl :
                /\ DOMAIN cl[n] = DOMAIN refCorner
                /\ \A v \in DOMAIN cl[n] : cl[n][v] \in DOMAIN nd
                /\ \A v \in DOMAIN cl[n] :
                    nd[cl[n][v]] = [d \in Axes |-> boxes[n][d] + refCorner[v][d]]
                /\ ~IsDegenerate(cl[n])
            /\ \A v \in DOMAIN nd : \E n \in DOMAIN cl : v \in Range(cl[n])
            /\ \A v, w \in DOMAIN nd : v < w => RowBefore(nd[v], nd[w])

(* a filtered box mesh is built: cells are gone, cells remain, nodes are
   gone and a node has changed its number *)
C21_Witness ==
    /\ FromBoxCalled
    /\ pc = "built"
    /\ ret.arg.threshold.given
    /\ 0 < NC /\ NC < ret.arg.nx * ret.arg.ny * ret.arg.nz
    /\ NN < (ret.arg.nx + 1) * (ret.arg.ny + 1) * (ret.arg.nz + 1)
    /\ \E v \in DOMAIN ret.val.node :
        ret.val.node[v] # boxNode(ret.arg.nx, ret.arg.ny, ret.arg.nz)[v]

(* class D is class C or derives from it *)
RECURSIVE IsSubclass(_, _)
IsSubclass(D, C) == D = C \/ (D # "Module" /\ IsSubclass(base(D), C))

(* C22: for every class C among _PoU_Fn and its subclasses, and whatever the
   order of the instantiations, all calls C() return one and the same
   object, and that object is an instance of C: a subclass never gets the
   object of a base class *)
C22_SingletonPerClass ==
    \A C \in PoUFnClasses :
        /\ Cardinality(given[C]) <= 1
        /\ \A o \in given[C] : IsSubclass(heap[o], C)

(* the derivatives that the product rule gives the two factors when the
   positions S of idx go to the first factor *)
LeibnizTerm(idx, S) ==
    [pou   |-> [i \in 0..(GD - 1) |-> Cardinality({k \in S : idx[k] = i})],
     space |-> [i \in 0..(GD - 1) |-> Cardinality({k \in (DOMAIN idx) \ S : idx[k] = i})]]

(* val holds the terms of the product rule for idx, each as often as the rule has it *)
IsLeibniz(val, idx) ==
    /\ Len(val) = Cardinality(SUBSET (DOMAIN idx))
    /\ \A S \in SUBSET (DOMAIN idx) :
        Cardinality({k \in DOMAIN val : val[k] = LeibnizTerm(idx, S)})
            = Cardinality({T \in SUBSET (DOMAIN idx) :
                            LeibnizTerm(idx, T) = LeibnizTerm(idx, S)})

(* C23: derivative_basis(p, *idx) returns the product-rule derivative of
   pou * basis for idx or raises NotImplementedError: it raises for every
   order whose formula is not written, order 4 included, and for an order
   of 1 or more it never returns the zero tensor it started from *)
C23_DerivativeOrNotImplemented ==
    ret.fn = "derivative_basis" =>
        /\ ret.out \in {"returned", "NotImplementedError"}
        /\ ret.out = "returned" => IsLeibniz(ret.val, ret.arg)
        /\ Len(ret.arg) >= 4 => ret.out = "NotImplementedError"
        /\ (Len(ret.arg) >= 1 /\ ret.out = "returned") => ret.val # << >>

====
